---- MODULE Spec2Model ----
(***************************************************************************)
(* Model of the cubini drivers KPZ101 (piezo controller) and KSG101        *)
(* (strain gauge reader): one driver object, the serial channel it opens,  *)
(* the frames its methods pack and write, and the device's replies.        *)
(*                                                                         *)
(* Frames are sequences of bytes exactly as struct.pack('<...') lays them  *)
(* out; the frame fields are read back from those bytes.  struct.pack is   *)
(* modelled as in Python 2.7 (the sources are Python 2): a value outside   *)
(* the range of its format code raises struct.error.                       *)
(*                                                                         *)
(* Physical inputs are integers.  int(round(sf * x)) is computed on the    *)
(* exact quotient, rounding half away from zero as Python 2 does; the      *)
(* input sets hold no value whose exact product ends in .5, so the float   *)
(* product cannot land on the other side of a tie.                         *)
(***************************************************************************)
EXTENDS Integers, Sequences, FiniteSets

VARIABLES
    dev,               \* the class of the driver object: "KPZ101" or "KSG101"
    phase,             \* "new", "ok" (__init__ returned), "failed" (__init__ raised), "destroyed"
    selfCom,           \* self.com: "None" or "port"
    opened,            \* ComPort(usb_device=...) has been constructed
    released,          \* disconnect() has been called on the port
    written,           \* frames written to the port, in order
    rx,                \* replies waiting in the port's receive buffer
    MAX_VOLTAGE,       \* KPZ101.MAX_VOLTAGE
    sfDen,             \* voltage_to_device_unit_sf = 32767. / sfDen
    INPUT_MODE,        \* KPZ101.INPUT_MODE
    POS_CONTROL_MODE,  \* KPZ101.POS_CONTROL_MODE
    last,              \* the last method call: name, arguments, error raised, frames written, reads
    pc,                \* per caller thread: "idle", or the query it is sleeping in
    got                \* per caller thread: what its last readBytes() returned

vars == <<dev, phase, selfCom, opened, released, written, rx,
          MAX_VOLTAGE, sfDen, INPUT_MODE, POS_CONTROL_MODE, last, pc, got>>

(* ---------------------------- bounds ---------------------------------- *)

MaxLog == 2

MaxConcLog == 4

Callers == {1, 2}

RespLens == {89, 90, 91}

Volts == {-1, 75, 76, 100, 101}

Positions == {-31, -30, -1, 30, 31}

Gains == {-1, 120, 256}

VoltageAttrs == {75, 100, 120}

InputModeAttrs == {0, 3}

PosModeAttrs == {4, 5}

(* ----------------------- class attributes ----------------------------- *)

channel == 1

destination == 80

source == 1

MAX_POSITION == 30

FullScale == 32767

FEEDBACK_SOURCE == 3

(* ----------------------------- struct.pack ---------------------------- *)

StructError == [ok |-> FALSE, bytes |-> <<>>]

PackItem(c, n) ==
    IF c = "H"
    THEN IF n \in 0..65535
         THEN [ok |-> TRUE, bytes |-> <<n % 256, n \div 256>>]
         ELSE StructError
    ELSE IF n \in 0..255
         THEN [ok |-> TRUE, bytes |-> <<n>>]
         ELSE StructError

RECURSIVE pack(_, _)
pack(fmt, vals) ==
    IF fmt = <<>>
    THEN [ok |-> TRUE, bytes |-> <<>>]
    ELSE LET h == PackItem(Head(fmt), Head(vals))
             t == pack(Tail(fmt), Tail(vals))
         IN  IF h.ok /\ t.ok
             THEN [ok |-> TRUE, bytes |-> h.bytes \o t.bytes]
             ELSE StructError

HBBBB == <<"H", "B", "B", "B", "B">>

(* int(round(n / d)), d > 0: Python 2 rounds half away from zero *)
RoundDiv(n, d) ==
    IF n >= 0
    THEN (2 * n + d) \div (2 * d)
    ELSE -((2 * (-n) + d) \div (2 * d))

(* --------------------------- reading a frame -------------------------- *)

MsgId(f) == f[1] + 256 * f[2]

Param1(f) == f[3]

Param2(f) == f[4]

DestByte(f) == f[5]

SourceByte(f) == f[6]

PayloadLen(f) == Len(f) - 6

Word(f, i) == f[i] + 256 * f[i + 1]

(* ------------------------- outcome of a call -------------------------- *)

Raise(e) == [err |-> e, out |-> <<>>, reads |-> 0]

Done(frames, nreads) == [err |-> "none", out |-> frames, reads |-> nreads]

NoCall == [op |-> "none", a |-> 0, b |-> 0, err |-> "none", nw |-> 0, nr |-> 0]

(* mutant: the write goes out whatever self.com holds *)
ComWriteOn_Unchecked(com, fmt, vals, nreads) ==
    LET p == pack(fmt, vals)
    IN  IF p.ok THEN Done(<<p.bytes>>, nreads) ELSE Raise("struct.error")

(* com.write(pack(fmt, vals)), then `nreads` calls of com.readBytes(), for
   com the value of self.com: the attribute lookup on it comes before the
   arguments are evaluated *)
ComWriteOn(com, fmt, vals, nreads) ==
    IF com = "None"
    THEN Raise("AttributeError")
    ELSE LET p == pack(fmt, vals)
         IN  IF p.ok THEN Done(<<p.bytes>>, nreads) ELSE Raise("struct.error")

ComWrite(fmt, vals, nreads) == ComWriteOn(selfCom, fmt, vals, nreads)

(* x | 0x80 on a byte *)
BitOr80(x) == IF (x \div 128) % 2 = 1 THEN x ELSE x + 128

(* ------------------------- message identifiers ------------------------ *)

MGMSG_HW_REQ_INFO == 5

MGMSG_MOD_SET_CHANENABLESTATE == 528

MGMSG_PZ_SET_POSCONTROLMODE == 1600

MGMSG_PZ_SET_OUTPUTVOLTS == 1603

MGMSG_PZ_SET_OUTPUTPOS == 1606

MGMSG_PZ_SET_INPUTVOLTSSRC == 1618

MGMSG_PZ_SET_PICONSTS == 1621

MGMSG_PZ_SET_ZERO == 1624

MGMSG_PZ_REQ_PZSTATUSUPDATE == 1632

MGMSG_PZ_SET_TPZ_IOSETTINGS == 2004

MGMSG_PZ_REQ_TSG_READING == 2013

(* ------------------- KPZ101: what each method does -------------------- *)

(* get_hwinfo names the global `com`, which the module never binds *)
KPZ101_get_hwinfo_call == Raise("NameError")

voltage_bytes == [v \in {75, 100, 150} |-> IF v = 75 THEN 1 ELSE IF v = 100 THEN 2 ELSE 3]

(* mutant: an unsupported limit falls back to the 150 V code *)
KPZ101_set_max_voltage_call_Default ==
    ComWrite(<<"H", "B", "B", "B", "B", "H", "H", "H", "H", "H">>,
             <<MGMSG_PZ_SET_TPZ_IOSETTINGS, 10, 0, BitOr80(destination), source, channel,
               IF MAX_VOLTAGE \in DOMAIN voltage_bytes THEN voltage_bytes[MAX_VOLTAGE] ELSE 3,
               FEEDBACK_SOURCE, 0, 0>>, 0)

KPZ101_set_max_voltage_call ==
    IF MAX_VOLTAGE \notin DOMAIN voltage_bytes
    THEN Raise("KeyError")
    ELSE ComWrite(<<"H", "B", "B", "B", "B", "H", "H", "H", "H", "H">>,
                  <<MGMSG_PZ_SET_TPZ_IOSETTINGS, 10, 0, BitOr80(destination), source,
                    channel, voltage_bytes[MAX_VOLTAGE], FEEDBACK_SOURCE, 0, 0>>, 0)

KPZ101_set_input_mode_call ==
    IF INPUT_MODE \notin {0, 1, 2}
    THEN Raise("AssertionError")
    ELSE ComWrite(<<"H", "B", "B", "B", "B", "H", "H">>,
                  <<MGMSG_PZ_SET_INPUTVOLTSSRC, 4, 0, BitOr80(destination), source,
                    channel, INPUT_MODE>>, 0)

KPZ101_enable_channel_call ==
    ComWrite(HBBBB, <<MGMSG_MOD_SET_CHANENABLESTATE, channel, 1, destination, source>>, 0)

KPZ101_disable_channel_call ==
    ComWrite(HBBBB, <<MGMSG_MOD_SET_CHANENABLESTATE, channel, 2, destination, source>>, 0)

(* the assert names `pos_control_mode`, bound nowhere: evaluating it raises *)
KPZ101_set_pos_control_mode_call == Raise("NameError")

(* mutant: the destination byte goes out without | 0x80 *)
KPZ101_set_output_voltage_call_NoPayloadBit(v) ==
    IF ~(0 <= v /\ v <= MAX_VOLTAGE)
    THEN Raise("AssertionError")
    ELSE ComWrite(<<"H", "B", "B", "B", "B", "H", "H">>,
                  <<MGMSG_PZ_SET_OUTPUTVOLTS, 4, 0, destination, source,
                    channel, RoundDiv(FullScale * v, sfDen)>>, 0)

KPZ101_set_output_voltage_call(v) ==
    IF ~(0 <= v /\ v <= MAX_VOLTAGE)
    THEN Raise("AssertionError")
    ELSE ComWrite(<<"H", "B", "B", "B", "B", "H", "H">>,
                  <<MGMSG_PZ_SET_OUTPUTVOLTS, 4, 0, BitOr80(destination), source,
                    channel, RoundDiv(FullScale * v, sfDen)>>, 0)

KPZ101_set_output_position_call(p) ==
    IF ~(-MAX_POSITION <= p /\ p <= MAX_POSITION)
    THEN Raise("AssertionError")
    ELSE ComWrite(<<"H", "B", "B", "B", "B", "H", "H">>,
                  <<MGMSG_PZ_SET_OUTPUTPOS, 4, 0, BitOr80(destination), source,
                    channel, RoundDiv(FullScale * p, MAX_POSITION)>>, 0)

(* the asserts name `p` and `i`, not the parameters: evaluating them raises *)
KPZ101_set_proportional_integral_terms_call(proportional, integral) == Raise("NameError")

(* ------------------- KSG101: what each method does -------------------- *)

KSG101_get_hwinfo_on(com) == ComWriteOn(com, HBBBB, <<MGMSG_HW_REQ_INFO, 0, 0, 80, 1>>, 1)

KSG101_get_hwinfo_call == KSG101_get_hwinfo_on(selfCom)

(* the device's reply to a request frame written by caller `by`: the set
   commands have none.  `by` is bookkeeping of the model, not a byte *)
Reply(f, by) ==
    IF MsgId(f) = MGMSG_HW_REQ_INFO
    THEN <<[id |-> MGMSG_HW_REQ_INFO + 1, by |-> by]>>
    ELSE IF MsgId(f) \in {MGMSG_PZ_REQ_PZSTATUSUPDATE, MGMSG_PZ_REQ_TSG_READING}
    THEN <<[id |-> MsgId(f) + 1, by |-> by]>>
    ELSE <<>>

KSG101_enable_channel_call ==
    ComWrite(HBBBB, <<MGMSG_MOD_SET_CHANENABLESTATE, channel, 1, destination, source>>, 0)

KSG101_disable_channel_call ==
    ComWrite(HBBBB, <<MGMSG_MOD_SET_CHANENABLESTATE, channel, 2, destination, source>>, 0)

KSG101_set_sg_settings_call == Done(<<>>, 0)

KSG101_set_zero_call ==
    ComWrite(HBBBB, <<MGMSG_PZ_SET_ZERO, channel, 0, destination, source>>, 0)

KSG101_get_status_call ==
    ComWrite(HBBBB, <<MGMSG_PZ_REQ_PZSTATUSUPDATE, channel, 0, destination, source>>, 1)

KSG101_get_sg_reading_call ==
    ComWrite(HBBBB, <<MGMSG_PZ_REQ_TSG_READING, channel, 0, destination, source>>, 1)

(* ------------------------------ actions ------------------------------- *)

Attrs == <<MAX_VOLTAGE, sfDen, INPUT_MODE, POS_CONTROL_MODE>>

(* a method called on the object by its single caller, run to completion:
   the frames go out, and a query's readBytes() empties the receive buffer.
   The methods test nothing but self.com, so they act the same on an object
   whose __init__ returned and on one whose __init__ raised *)
Call(class, op, a, b, r) ==
    /\ dev = class
    /\ phase \in {"ok", "failed"}
    /\ \A c \in Callers : pc[c] = "idle"
    /\ Len(written) + Len(r.out) <= MaxLog
    /\ written' = written \o r.out
    /\ rx' = IF r.reads > 0 THEN <<>> ELSE rx
    /\ last' = [op |-> op, a |-> a, b |-> b, err |-> r.err,
                nw |-> Len(r.out), nr |-> r.reads]
    /\ UNCHANGED <<dev, phase, selfCom, opened, released, Attrs, pc, got>>

(* __init__ of KPZ101.  `found` is whether a USB device with the serial number
   was found (the assert of line 67), `hwLen` the length of the reply the
   device gives to MGMSG_HW_REQ_INFO *)
KPZ101_init ==
    /\ dev = "KPZ101"
    /\ phase = "new"
    /\ \E found \in BOOLEAN, hwLen \in RespLens :
       LET r == IF found THEN KPZ101_get_hwinfo_call ELSE Raise("AssertionError")
           ok == r.err = "none" /\ hwLen = 90
       IN  /\ opened' = found
           /\ written' = written \o r.out
           /\ phase' = IF ok THEN "ok" ELSE "failed"
           /\ selfCom' = IF ok THEN "port" ELSE "None"
           /\ last' = [op |-> "__init__", a |-> hwLen, b |-> 0,
                       err |-> IF r.err # "none" THEN r.err
                               ELSE IF hwLen # 90 THEN "AssertionError" ELSE "none",
                       nw |-> Len(r.out), nr |-> r.reads]
    /\ UNCHANGED <<dev, released, rx, Attrs, pc, got>>

(* __init__ of KSG101: self.com is bound as soon as the port is opened *)
KSG101_init ==
    /\ dev = "KSG101"
    /\ phase = "new"
    /\ \E found \in BOOLEAN, hwLen \in RespLens :
       LET r == IF found THEN KSG101_get_hwinfo_on("port") ELSE Raise("AssertionError")
           ok == r.err = "none" /\ hwLen = 90
       IN  /\ opened' = found
           /\ selfCom' = IF found THEN "port" ELSE "None"
           /\ written' = written \o r.out
           /\ phase' = IF ok THEN "ok" ELSE "failed"
           /\ last' = [op |-> "__init__", a |-> hwLen, b |-> 0,
                       err |-> IF r.err # "none" THEN r.err
                               ELSE IF hwLen # 90 THEN "AssertionError" ELSE "none",
                       nw |-> Len(r.out), nr |-> r.reads]
    /\ UNCHANGED <<dev, released, rx, Attrs, pc, got>>

KPZ101_del ==
    /\ dev = "KPZ101"
    /\ phase \in {"ok", "failed"}
    /\ \A c \in Callers : pc[c] = "idle"
    /\ phase' = "destroyed"
    /\ released' = (released \/ selfCom # "None")
    /\ UNCHANGED <<dev, selfCom, opened, written, rx, Attrs, last, pc, got>>

KSG101_del ==
    /\ dev = "KSG101"
    /\ phase \in {"ok", "failed"}
    /\ \A c \in Callers : pc[c] = "idle"
    /\ phase' = "destroyed"
    /\ released' = (released \/ selfCom # "None")
    /\ UNCHANGED <<dev, selfCom, opened, written, rx, Attrs, last, pc, got>>

KPZ101_get_hwinfo == Call("KPZ101", "get_hwinfo", 0, 0, KPZ101_get_hwinfo_call)

KPZ101_set_max_voltage == Call("KPZ101", "set_max_voltage", 0, 0, KPZ101_set_max_voltage_call)

KPZ101_set_input_mode == Call("KPZ101", "set_input_mode", 0, 0, KPZ101_set_input_mode_call)

KPZ101_enable_channel == Call("KPZ101", "enable_channel", 0, 0, KPZ101_enable_channel_call)

KPZ101_disable_channel == Call("KPZ101", "disable_channel", 0, 0, KPZ101_disable_channel_call)

KPZ101_set_pos_control_mode ==
    Call("KPZ101", "set_pos_control_mode", 0, 0, KPZ101_set_pos_control_mode_call)

KPZ101_set_output_voltage ==
    \E v \in Volts :
        Call("KPZ101", "set_output_voltage", v, 0, KPZ101_set_output_voltage_call(v))

KPZ101_set_output_position ==
    \E p \in Positions :
        Call("KPZ101", "set_output_position", p, 0, KPZ101_set_output_position_call(p))

KPZ101_set_proportional_integral_terms ==
    \E proportional \in Gains, integral \in Gains :
        Call("KPZ101", "set_proportional_integral_terms", proportional, integral,
             KPZ101_set_proportional_integral_terms_call(proportional, integral))

KSG101_get_hwinfo == Call("KSG101", "get_hwinfo", 0, 0, KSG101_get_hwinfo_call)

KSG101_enable_channel == Call("KSG101", "enable_channel", 0, 0, KSG101_enable_channel_call)

KSG101_disable_channel == Call("KSG101", "disable_channel", 0, 0, KSG101_disable_channel_call)

KSG101_set_sg_settings == Call("KSG101", "set_sg_settings", 0, 0, KSG101_set_sg_settings_call)

KSG101_set_zero == Call("KSG101", "set_zero", 0, 0, KSG101_set_zero_call)

KSG101_get_status == Call("KSG101", "get_status", 0, 0, KSG101_get_status_call)

KSG101_get_sg_reading == Call("KSG101", "get_sg_reading", 0, 0, KSG101_get_sg_reading_call)

(* ---------- the caller's assignments to the public attributes --------- *)

AssignAttr(mv, im, pm, com) ==
    /\ dev = "KPZ101"
    /\ phase \in {"ok", "failed"}
    /\ \A c \in Callers : pc[c] = "idle"
    /\ MAX_VOLTAGE' = mv
    /\ INPUT_MODE' = im
    /\ POS_CONTROL_MODE' = pm
    /\ selfCom' = com
    /\ last' = NoCall
    /\ UNCHANGED <<dev, phase, opened, released, written, rx, sfDen, pc, got>>

Assign_MAX_VOLTAGE ==
    \E x \in VoltageAttrs \ {MAX_VOLTAGE} :
        AssignAttr(x, INPUT_MODE, POS_CONTROL_MODE, selfCom)

Assign_INPUT_MODE ==
    \E x \in InputModeAttrs \ {INPUT_MODE} :
        AssignAttr(MAX_VOLTAGE, x, POS_CONTROL_MODE, selfCom)

Assign_POS_CONTROL_MODE ==
    \E x \in PosModeAttrs \ {POS_CONTROL_MODE} :
        AssignAttr(MAX_VOLTAGE, INPUT_MODE, x, selfCom)

(* KPZ101.__init__ never reaches `self.com = com`: the handle of the port it
   opened gets into self.com only by an assignment from outside *)
Assign_com ==
    /\ selfCom = "None"
    /\ opened /\ ~released
    /\ AssignAttr(MAX_VOLTAGE, INPUT_MODE, POS_CONTROL_MODE, "port")

(* -------- two threads calling the queries of one KSG101 object -------- *)

(* up to time.sleep(0.1): the request is written and the device answers *)
QueryWrite(c, op, r) ==
    /\ dev = "KSG101"
    /\ phase \in {"ok", "failed"}
    /\ pc[c] = "idle"
    /\ Len(written) + Len(r.out) <= MaxConcLog
    /\ written' = written \o r.out
    /\ rx' = IF r.out = <<>> THEN rx ELSE rx \o Reply(r.out[1], c)
    /\ pc' = [pc EXCEPT ![c] = IF r.err = "none" THEN op ELSE "idle"]
    /\ last' = [op |-> op, a |-> c, b |-> 0, err |-> r.err, nw |-> Len(r.out), nr |-> 0]
    /\ UNCHANGED <<dev, phase, selfCom, opened, released, Attrs, got>>

(* return self.com.readBytes(): everything the port has received *)
QueryRead(c, op) ==
    /\ pc[c] = op
    /\ got' = [got EXCEPT ![c] = rx]
    /\ rx' = <<>>
    /\ pc' = [pc EXCEPT ![c] = "idle"]
    /\ last' = [op |-> op, a |-> c, b |-> 0, err |-> "none", nw |-> 0, nr |-> 1]
    /\ UNCHANGED <<dev, phase, selfCom, opened, released, written, Attrs>>

KSG101_get_status_write == \E c \in Callers : QueryWrite(c, "get_status", KSG101_get_status_call)

KSG101_get_status_read == \E c \in Callers : QueryRead(c, "get_status")

KSG101_get_sg_reading_write ==
    \E c \in Callers : QueryWrite(c, "get_sg_reading", KSG101_get_sg_reading_call)

KSG101_get_sg_reading_read == \E c \in Callers : QueryRead(c, "get_sg_reading")


Init ==
    /\ dev \in {"KPZ101", "KSG101"}
    /\ phase = "new"
    /\ selfCom = "None"
    /\ opened = FALSE
    /\ released = FALSE
    /\ written = <<>>
    /\ rx = <<>>
    /\ MAX_VOLTAGE = 75
    /\ sfDen = 75
    /\ INPUT_MODE = 0
    /\ POS_CONTROL_MODE = 4
    /\ last = NoCall
    /\ pc = [c \in Callers |-> "idle"]
    /\ got = [c \in Callers |-> <<>>]

Next ==
    \/ KPZ101_init
    \/ KPZ101_del
    \/ KPZ101_get_hwinfo
    \/ KPZ101_set_max_voltage
    \/ KPZ101_set_input_mode
    \/ KPZ101_enable_channel
    \/ KPZ101_disable_channel
    \/ KPZ101_set_pos_control_mode
    \/ KPZ101_set_output_voltage
    \/ KPZ101_set_output_position
    \/ KPZ101_set_proportional_integral_terms
    \/ Assign_MAX_VOLTAGE
    \/ Assign_INPUT_MODE
    \/ Assign_POS_CONTROL_MODE
    \/ Assign_com
    \/ KSG101_init
    \/ KSG101_del
    \/ KSG101_get_hwinfo
    \/ KSG101_enable_channel
    \/ KSG101_disable_channel
    \/ KSG101_set_sg_settings
    \/ KSG101_set_zero
    \/ KSG101_get_status
    \/ KSG101_get_sg_reading

Spec == Init /\ [][Next]_vars

InitConc == Init /\ dev = "KSG101"

NextConc ==
    \/ KSG101_init
    \/ KSG101_get_status_write
    \/ KSG101_get_status_read
    \/ KSG101_get_sg_reading_write
    \/ KSG101_get_sg_reading_read

SpecConc == InitConc /\ [][NextConc]_vars

(* ============================== claims =============================== *)

Bit7(x) == (x \div 128) % 2 = 1

LastFrame == written[Len(written)]

Connected == selfCom = "port"

(* the two scalar bytes the catalog gives a header-only command *)
ScalarBytesOk(f) ==
    IF MsgId(f) = MGMSG_HW_REQ_INFO THEN Param1(f) = 0 /\ Param2(f) = 0
    ELSE IF MsgId(f) = MGMSG_MOD_SET_CHANENABLESTATE
    THEN Param1(f) = channel /\ Param2(f) \in {1, 2}
    ELSE IF MsgId(f) = MGMSG_PZ_SET_POSCONTROLMODE
    THEN Param1(f) = channel /\ Param2(f) \in 1..4
    ELSE Param1(f) = channel /\ Param2(f) = 0

FrameInvariant(f) ==
    /\ Len(f) >= 6
    /\ \A i \in 1..Len(f) : f[i] \in 0..255
    /\ IF PayloadLen(f) > 0
       THEN Param1(f) + 256 * Param2(f) = PayloadLen(f) /\ Bit7(DestByte(f))
       ELSE ~Bit7(DestByte(f)) /\ ScalarBytesOk(f)

(* C1: every frame written to the port satisfies the frame invariant: with a
   payload, param1/param2 are its length (little-endian) and bit 7 of the
   destination byte is set; without one, bit 7 is clear and param1/param2
   are the command's two scalar bytes *)
C1_FrameInvariant == \A i \in 1..Len(written) : FrameInvariant(written[i])

C1_Witness ==
    \E i, j \in 1..Len(written) :
        PayloadLen(written[i]) > 0 /\ PayloadLen(written[j]) = 0

(* C2, as claimed: once the port is open, construction writes the 0x0005
   request and reads the reply; a 90-byte reply leaves the session Connected,
   any other length fails construction with the handshake error *)
C2_Handshake ==
    (last.op = "__init__" /\ opened) =>
        /\ last.nw = 1 /\ MsgId(LastFrame) = MGMSG_HW_REQ_INFO /\ last.nr = 1
        /\ IF last.a = 90
           THEN phase = "ok" /\ Connected /\ last.err = "none"
           ELSE phase = "failed" /\ last.err = "AssertionError"

CommandOps ==
    {"enable_channel", "disable_channel", "set_output_voltage", "set_output_position",
     "set_proportional_integral_terms", "set_zero", "set_input_mode", "set_max_voltage",
     "set_pos_control_mode", "get_status", "get_sg_reading"}

(* C3: a command called while self.com is None ends in an error, with no
   write and no read *)
C3_NotConnected ==
    (last.op \in CommandOps /\ ~Connected) =>
        last.err # "none" /\ last.nw = 0 /\ last.nr = 0

C3_Witness ==
    /\ ~Connected
    /\ last.op = "set_output_voltage" /\ last.a = 75
    /\ last.err = "AttributeError"

(* C4, as claimed: when the last I/O-settings frame sent carries the code of
   the current MAX_VOLTAGE, set_output_voltage sends round(v * 32767 / MAX_VOLTAGE) *)
C4_ScaleFollowsLimit ==
    (/\ last.op = "set_output_voltage" /\ last.nw = 1
     /\ \E i \in 1..Len(written) :
            /\ MsgId(written[i]) = MGMSG_PZ_SET_TPZ_IOSETTINGS
            /\ \A j \in (i + 1)..Len(written) :
                   MsgId(written[j]) # MGMSG_PZ_SET_TPZ_IOSETTINGS
            /\ MAX_VOLTAGE \in DOMAIN voltage_bytes
            /\ Word(written[i], 9) = voltage_bytes[MAX_VOLTAGE])
    => Word(LastFrame, 9) = RoundDiv(FullScale * last.a, MAX_VOLTAGE)

Rejected == last.err # "none" /\ last.nw = 0

(* C5: a KPZ101 command whose arguments fail validation ends in an error and
   writes nothing *)
C5_InvalidWritesNothing ==
    /\ (last.op = "set_output_voltage" /\ (last.a < 0 \/ last.a > MAX_VOLTAGE)) => Rejected
    /\ (last.op = "set_output_position"
        /\ (last.a < -MAX_POSITION \/ last.a > MAX_POSITION)) => Rejected
    /\ (last.op = "set_max_voltage" /\ MAX_VOLTAGE \notin {75, 100, 150}) => Rejected
    /\ (last.op = "set_input_mode" /\ INPUT_MODE \notin {0, 1, 2}) => Rejected
    /\ (last.op = "set_pos_control_mode" /\ POS_CONTROL_MODE \notin 1..4) => Rejected
    /\ (last.op = "set_proportional_integral_terms"
        /\ (last.a \notin 0..255 \/ last.b \notin 0..255)) => Rejected

C5_Witness ==
    /\ Connected /\ Len(written) > 0
    /\ last.op = "set_max_voltage" /\ MAX_VOLTAGE = 120
    /\ last.err = "KeyError"

(* C6, as claimed: for MAX_VOLTAGE in {75, 100, 150} the units sent by
   set_output_voltage lie in 0..32767, and v = MAX_VOLTAGE is sent as 32767 *)
C6_FullScale ==
    (last.op = "set_output_voltage" /\ last.nw = 1 /\ MAX_VOLTAGE \in {75, 100, 150}) =>
        /\ Word(LastFrame, 9) \in 0..FullScale
        /\ last.a = MAX_VOLTAGE => Word(LastFrame, 9) = FullScale

(* C7, as claimed: at most one command is in flight on the port, and a query
   returns only the reply to its own request *)
C7_OneInFlight ==
    /\ Cardinality({c \in Callers : pc[c] # "idle"}) <= 1
    /\ \A c \in Callers : \A i \in 1..Len(got[c]) : got[c][i].by = c

(* C8, as claimed: a port opened by construction has been released when the
   object is destroyed *)
C8_Released == (phase = "destroyed" /\ opened) => released

(* C9, as claimed: set_output_position with -MAX_POSITION <= p < 0 on a
   Connected session writes one 0x0646 frame whose units are
   round(p * 32767 / MAX_POSITION) in 16-bit two's complement *)
C9_NegativePosition ==
    (Connected /\ last.op = "set_output_position"
     /\ -MAX_POSITION <= last.a /\ last.a < 0) =>
        /\ last.err = "none" /\ last.nw = 1
        /\ MsgId(LastFrame) = MGMSG_PZ_SET_OUTPUTPOS
        /\ Word(LastFrame, 9) = 65536 + RoundDiv(FullScale * last.a, MAX_POSITION)

ValidArgs ==
    /\ last.op = "set_output_voltage" => (0 <= last.a /\ last.a <= MAX_VOLTAGE)
    /\ last.op = "set_output_position" => (-MAX_POSITION <= last.a /\ last.a <= MAX_POSITION)
    /\ last.op = "set_proportional_integral_terms" => (last.a \in 0..255 /\ last.b \in 0..255)
    /\ last.op = "set_input_mode" => INPUT_MODE \in {0, 1, 2}
    /\ last.op = "set_max_voltage" => MAX_VOLTAGE \in {75, 100, 150}
    /\ last.op = "set_pos_control_mode" => POS_CONTROL_MODE \in 1..4

CatalogId ==
    [op \in {"enable_channel", "disable_channel", "set_output_voltage",
             "set_output_position", "set_proportional_integral_terms", "set_zero",
             "set_input_mode", "set_max_voltage", "set_pos_control_mode"} |->
        CASE op \in {"enable_channel", "disable_channel"} -> MGMSG_MOD_SET_CHANENABLESTATE
          [] op = "set_output_voltage" -> MGMSG_PZ_SET_OUTPUTVOLTS
          [] op = "set_output_position" -> MGMSG_PZ_SET_OUTPUTPOS
          [] op = "set_proportional_integral_terms" -> MGMSG_PZ_SET_PICONSTS
          [] op = "set_zero" -> MGMSG_PZ_SET_ZERO
          [] op = "set_input_mode" -> MGMSG_PZ_SET_INPUTVOLTSSRC
          [] op = "set_max_voltage" -> MGMSG_PZ_SET_TPZ_IOSETTINGS
          [] op = "set_pos_control_mode" -> MGMSG_PZ_SET_POSCONTROLMODE]

(* C10, as claimed: on a Connected session a fire-and-forget command with
   valid arguments raises nothing, writes exactly one frame with the
   catalog's message id, and reads nothing *)
C10_FireAndForget ==
    (Connected /\ last.op \in DOMAIN CatalogId /\ ValidArgs) =>
        /\ last.err = "none" /\ last.nw = 1 /\ last.nr = 0
        /\ MsgId(LastFrame) = CatalogId[last.op]
====
